---- MODULE Spec2Model ----
(***************************************************************************)
(* Batch conversion pipeline of the MP4 to MP3 converter (src/main.py):    *)
(* the task list of MainWindow, the ConversionWorker thread(s) that walk   *)
(* it, the queued Qt signals from the worker thread(s) to the UI thread,   *)
(* and the UI handlers that read and write the shared ConversionTask       *)
(* objects.                                                                *)
(*                                                                         *)
(* ConversionTask objects live in a heap (task), indexed by object id, so  *)
(* that a worker or a progress widget can keep a reference to an object    *)
(* that Clear List has already removed from MainWindow.tasks.              *)
(***************************************************************************)
EXTENDS Integers, Sequences, FiniteSets, TLC

\* ---------------------------------------------------------------- bounds
MaxObj == 2      \* ConversionTask objects created in one behaviour
MaxRuns == 2     \* ConversionWorker objects created in one behaviour
MaxList == 2     \* entries of the file list widget
NumPaths == 2    \* distinct input paths the user can pick
MaxQueue == 2    \* signals queued to the UI thread and not yet delivered
MaxStarts == 2   \* conversions started in one behaviour, over all workers
MaxStderr == 201 \* characters ffmpeg writes to its error stream in one call

\* ------------------------------------------------------ program constants
RangeStop == 101    \* range(0, 101, 10)
RangeStep == 10
SliceStop == 200    \* result.stderr[:200]

Paths == 1..NumPaths
Objs == 1..MaxObj
Workers == 1..MaxRuns
None == 0
Terminal == {"completed", "failed"}
Entries == {"button", "action"}   \* a push button, or a menu/toolbar QAction

VARIABLES
    task,              \* heap of ConversionTask objects: object id -> fields
    nobj,              \* number of ConversionTask objects created so far
    tasks,             \* MainWindow.tasks: the list both threads share (object ids)
    file_list,         \* MainWindow.file_list: UserRole data of the items
    progress_widgets,  \* MainWindow.progress_widgets: the task each widget holds
    widgets_deleted,   \* the widgets of progress_widgets were deleted (deleteLater ran)
    btn,               \* enabled state of the push buttons
    current_worker,    \* MainWindow.current_worker (None or a worker id)
    wk,                \* ConversionWorker threads: worker id -> thread state
    nwk,               \* number of ConversionWorker objects created so far
    queue,             \* event queue of the UI thread: queued signals, deferred deletes
    wlast,             \* history: the signal each worker emitted last (NoEv: none yet)
    uipc,              \* where the UI thread is inside a multi-step handler
    finished,          \* locals and result of the running/last _on_conversion_finished,
                       \* and the run (current_worker) it was entered for
    auto_clear_timer,  \* a QTimer.singleShot(2000, _clear_list) is pending
    now,               \* time.time(): a clock that advances with every reading
    aborted,           \* an exception escaped a slot: PyQt called qFatal()
    fs,                \* the file system: os.path.exists of each input path
    add_call,          \* history: the last call of _add_file_to_list and what it returned
    app,               \* the application: closed, or open with the config as loaded / as edited
    config,            \* MainWindow.config: the AppConfig object, field -> value
    settings_file,     \* ~/.mp4tomp3_config.json
    saved,             \* history: the config the file was last written from by _save_settings,
                       \* how the last call of it ended and whether it told the user
    HAS_MUTAGEN,       \* the module global: mutagen could be imported
    worker_config,     \* ConversionWorker.config: the dict _convert_single reads
    cmd,               \* _convert_single: the argument list for ffmpeg
    call,              \* one call of _convert_single: position, outcomes, returned value
    names,             \* the input_path of each task of MainWindow.tasks, as text
    output_path,       \* the output_path of each task of MainWindow.tasks, as text
    pause_btn          \* text of the Pause button, which names the slot it is connected to

registry_vars == <<fs, add_call>>
settings_vars == <<app, config, settings_file, saved>>
convert_vars == <<HAS_MUTAGEN, worker_config, cmd, call>>
naming_vars == <<names, output_path>>
pause_vars == <<pause_btn>>

\* The variables only the specifications of single functions change. In Spec
\* the settings dialog is never opened; the one setting the batch reads,
\* auto_clear_list, is drawn where it is read.
side_vars == <<registry_vars, settings_vars, convert_vars, naming_vars, pause_vars>>

\* The variables of the conversion batch.
main_vars == <<task, nobj, tasks, file_list, progress_widgets, widgets_deleted, btn,
               current_worker, wk, nwk, queue, wlast, uipc, finished,
               auto_clear_timer, now, aborted>>

vars == <<main_vars, side_vars>>

\* ------------------------------------------------------------ ConversionTask
\* file_size is os.path.getsize of an existing file (1: every size of an
\* existing file behaves alike) and 0 for a path that does not exist.
ConversionTask(path) ==
    [input_path |-> path, status |-> "pending", progress |-> 0,
     error_message |-> "", start_time |-> None, end_time |-> None,
     file_size |-> IF fs[path] THEN 1 ELSE 0]

\* An object id that no ConversionTask has been created for yet.
NoTask == [input_path |-> None, status |-> "pending", progress |-> 0,
           error_message |-> "", start_time |-> None, end_time |-> None,
           file_size |-> 0]

\* ---------------------------------------------------------- ConversionWorker
ConversionWorker ==
    [pc |-> "loop", i |-> 0, task |-> None, progress |-> 0, is_running |-> TRUE,
     n_start |-> Len(tasks), started |-> {}, ended |-> {}]

NoWorker ==
    [pc |-> "none", i |-> 0, task |-> None, progress |-> 0, is_running |-> TRUE,
     n_start |-> 0, started |-> {}, ended |-> {}]

\* Conversions started so far by the workers 1..n.
RECURSIVE Starts(_)
Starts(n) == IF n = 0 THEN 0 ELSE Cardinality(wk[n].started) + Starts(n - 1)

InList(o) == \E k \in 1..Len(tasks) : tasks[k] = o

\* self.tasks.index(task), for a task that is in the list (0-based).
Index(o) == (CHOOSE k \in 1..Len(tasks) : tasks[k] = o) - 1

\* pyqtSignal.emit from the worker thread: queued to the UI thread.
emit(w, ev) ==
    /\ Len(queue) < MaxQueue
    /\ queue' = Append(queue, ev)
    /\ wlast' = [wlast EXCEPT ![w] = ev]

StartedEv(i) == [kind |-> "started", task_id |-> i, progress |-> 0, success |-> FALSE]
ProgressEv(i, p) == [kind |-> "progress", task_id |-> i, progress |-> p, success |-> FALSE]
CompletedEv(i, ok) == [kind |-> "completed", task_id |-> i, progress |-> 0, success |-> ok]
NoEv == [kind |-> "none", task_id |-> 0, progress |-> 0, success |-> FALSE]
DeferredDelete == [kind |-> "deferred_delete", task_id |-> 0, progress |-> 0, success |-> FALSE]

UiUnch == <<nobj, tasks, file_list, progress_widgets, widgets_deleted, btn,
            current_worker, nwk, uipc, finished,
            auto_clear_timer, aborted, side_vars>>

\* run_result with the emission of task_completed left out.
run_result_Silent(w, success, message) ==
    LET o == wk[w].task IN
    /\ task' = [task EXCEPT ![o].status = IF success THEN "completed" ELSE "failed",
                            ![o].error_message = IF success THEN "" ELSE message,
                            ![o].end_time = now]
    /\ now' = now + 1
    /\ UNCHANGED <<queue, wlast>>
    /\ wk' = [wk EXCEPT ![w].pc = "loop", ![w].i = @ + 1, ![w].task = None,
                        ![w].progress = 0, ![w].ended = @ \cup {o}]

\* run_result as the except clause of run() would do it: failed, the message,
\* task_completed, and no end_time.
run_result_NoEndTime(w, success, message) ==
    LET o == wk[w].task IN
    /\ task' = [task EXCEPT ![o].status = "failed",
                            ![o].error_message = message]
    /\ now' = now + 1
    /\ emit(w, CompletedEv(wk[w].i, FALSE))
    /\ wk' = [wk EXCEPT ![w].pc = "loop", ![w].i = @ + 1, ![w].task = None,
                        ![w].progress = 0, ![w].ended = @ \cup {o}]

\* run(), the body of the for loop after _convert_single has returned
\* (success, message): the task gets its final status and task_completed is
\* emitted. _convert_single catches every Exception itself, so the except
\* clause of run() is never entered.
run_result(w, success, message) ==
    LET o == wk[w].task IN
    /\ task' = [task EXCEPT ![o].status = IF success THEN "completed" ELSE "failed",
                            ![o].error_message = IF success THEN "" ELSE message,
                            ![o].end_time = now]
    /\ now' = now + 1
    /\ emit(w, CompletedEv(wk[w].i, success))
    /\ wk' = [wk EXCEPT ![w].pc = "loop", ![w].i = @ + 1, ![w].task = None,
                        ![w].progress = 0, ![w].ended = @ \cup {o}]

\* run with the test of is_running left out.
run_NoStopCheck(w) ==
    /\ ~aborted
    /\ wk[w].pc = "loop"
    /\ IF wk[w].i >= Len(tasks)
       THEN /\ wk' = [wk EXCEPT ![w].pc = "done"]
            /\ UNCHANGED <<task, now, queue, wlast>>
       ELSE LET o == tasks[wk[w].i + 1] IN
            /\ Starts(MaxRuns) < MaxStarts
            /\ emit(w, StartedEv(wk[w].i))
            /\ task' = [task EXCEPT ![o].status = "converting", ![o].start_time = now]
            /\ now' = now + 1
            /\ wk' = [wk EXCEPT ![w].pc = "makedirs", ![w].task = o,
                                ![w].started = @ \cup {o}]
    /\ UNCHANGED UiUnch

\* run(): the for statement fetches the next item of the shared list (the
\* list iterator compares its index with the current length), the loop body
\* tests is_running, emits conversion_started and marks the task converting.
run(w) ==
    /\ ~aborted
    /\ wk[w].pc = "loop"
    /\ IF wk[w].i >= Len(tasks) \/ ~wk[w].is_running
       THEN /\ wk' = [wk EXCEPT ![w].pc = "done"]
            /\ UNCHANGED <<task, now, queue, wlast>>
       ELSE LET o == tasks[wk[w].i + 1] IN
            /\ Starts(MaxRuns) < MaxStarts
            /\ emit(w, StartedEv(wk[w].i))
            /\ task' = [task EXCEPT ![o].status = "converting", ![o].start_time = now]
            /\ now' = now + 1
            /\ wk' = [wk EXCEPT ![w].pc = "makedirs", ![w].task = o,
                                ![w].started = @ \cup {o}]
    /\ UNCHANGED UiUnch

\* _convert_single: os.makedirs of the output directory; an OSError is caught
\* by the function's own except clause.
_convert_single_makedirs(w) ==
    /\ ~aborted
    /\ wk[w].pc = "makedirs"
    /\ \/ /\ wk' = [wk EXCEPT ![w].pc = "progress", ![w].progress = 0]
          /\ UNCHANGED <<task, now, queue, wlast>>
       \/ run_result(w, FALSE, "Conversion error")
    /\ UNCHANGED UiUnch

\* _convert_single: one iteration of the simulated progress loop.
_convert_single_progress(w) ==
    /\ ~aborted
    /\ wk[w].pc = "progress"
    /\ wk[w].progress < RangeStop
    /\ IF ~wk[w].is_running
       THEN run_result(w, FALSE, "Conversion cancelled")
       ELSE IF ~InList(wk[w].task)
       THEN run_result(w, FALSE, "Conversion error")   \* tasks.index raises ValueError
       ELSE /\ emit(w, ProgressEv(Index(wk[w].task), wk[w].progress))
            /\ wk' = [wk EXCEPT ![w].progress = @ + RangeStep]
            /\ UNCHANGED <<task, now>>
    /\ UNCHANGED UiUnch

\* _convert_single: subprocess.run of ffmpeg after the progress loop; it exits
\* with code zero, with a non-zero code, or cannot be launched.
_convert_single_subprocess(w) ==
    /\ ~aborted
    /\ wk[w].pc = "progress"
    /\ wk[w].progress >= RangeStop
    /\ \/ run_result(w, TRUE, "Conversion successful")
       \/ run_result(w, FALSE, "FFmpeg error")
       \/ run_result(w, FALSE, "Conversion error")
    /\ UNCHANGED UiUnch

\* ------------------------------------------------------------ the UI thread
\* The UI thread is back in its event loop and has run the deferred deletes
\* posted by the handler before: input and timer events are dispatched after
\* the posted events the previous handler left.
UserReady ==
    /\ ~aborted
    /\ uipc = "idle"
    /\ \A k \in 1..Len(queue) : queue[k].kind # "deferred_delete"

Enabled(entry, b) == entry = "button" => b

\* The paths are interchangeable, so they are numbered in the order in which
\* the user first brings them into the file list.
FreshOrListed(file_path) ==
    file_path <= Cardinality({file_list[k] : k \in 1..Len(file_list)}) + 1

\* _add_file_to_list, called with the file list as its caller left it.
_add_file_to_list(file_path, fl) ==
    IF \E k \in 1..Len(fl) : fl[k] = file_path
    THEN /\ file_list' = fl
         /\ UNCHANGED <<task, nobj, tasks>>
    ELSE /\ file_list' = Append(fl, file_path)
         /\ nobj' = nobj + 1
         /\ task' = [task EXCEPT ![nobj + 1] = ConversionTask(file_path)]
         /\ tasks' = Append(tasks, nobj + 1)

\* Add Files (button, menu action with Ctrl+O, toolbar action) and Add Folder,
\* for one selected file.
_add_files(entry, file_path) ==
    /\ UserReady
    /\ Enabled(entry, btn.add_files)
    /\ nobj < MaxObj
    /\ Len(file_list) < MaxList
    /\ FreshOrListed(file_path)
    /\ _add_file_to_list(file_path, file_list)
    /\ UNCHANGED <<side_vars, progress_widgets, widgets_deleted, btn, current_worker, wk, nwk,
                   queue, wlast, uipc, finished, auto_clear_timer,
                   now, aborted>>

\* DraggableListWidget.dropEvent for one dropped video file: the item is added
\* to the list widget, then files_dropped reaches _on_files_dropped, which
\* calls _add_file_to_list.
dropEvent(file_path) ==
    /\ UserReady
    /\ Len(file_list) < MaxList
    /\ FreshOrListed(file_path)
    /\ _add_file_to_list(file_path, Append(file_list, file_path))
    /\ UNCHANGED <<side_vars, progress_widgets, widgets_deleted, btn, current_worker, wk, nwk,
                   queue, wlast, uipc, finished, auto_clear_timer,
                   now, aborted>>

\* _clear_list once the question is answered Yes: both lists are emptied in
\* place and the progress widgets still in the layout get deleteLater().
clear_list_yes ==
    /\ file_list' = <<>>
    /\ tasks' = <<>>
    /\ queue' = IF Len(progress_widgets) > 0 /\ ~widgets_deleted
                THEN Append(queue, DeferredDelete)
                ELSE queue

\* Clear List (button, menu action with Ctrl+L, toolbar action), answered Yes.
_clear_list(entry) ==
    /\ UserReady
    /\ Enabled(entry, btn.clear_list)
    /\ clear_list_yes
    /\ UNCHANGED <<side_vars, task, nobj, progress_widgets, widgets_deleted, btn, current_worker,
                   wk, nwk, wlast, uipc, finished, auto_clear_timer,
                   now, aborted>>

\* QTimer.singleShot(2000, self._clear_list) fires; the question is answered
\* Yes or No.
auto_clear_timeout ==
    /\ UserReady
    /\ auto_clear_timer
    /\ auto_clear_timer' = FALSE
    /\ \/ clear_list_yes
       \/ UNCHANGED <<file_list, tasks, queue>>
    /\ UNCHANGED <<side_vars, task, nobj, progress_widgets, widgets_deleted, btn, current_worker,
                   wk, nwk, wlast, uipc, finished, now, aborted>>

ControlsDisabled ==
    [start |-> FALSE, pause |-> TRUE, stop |-> TRUE, add_files |-> FALSE,
     clear_list |-> FALSE]

ControlsEnabled ==
    [start |-> TRUE, pause |-> FALSE, stop |-> FALSE, add_files |-> TRUE,
     clear_list |-> TRUE]

\* _start_conversion (button, menu action with F5, toolbar action): the
\* controls are disabled, the progress widgets are rebuilt, the output
\* directory is created (an OSError escapes the slot), and a new worker over
\* the shared list is created and started.
_start_conversion(entry) ==
    /\ UserReady
    /\ Enabled(entry, btn.start)
    /\ Len(tasks) # 0
    /\ nwk < MaxRuns
    /\ btn' = ControlsDisabled
    /\ progress_widgets' = tasks
    /\ widgets_deleted' = FALSE
    /\ \/ /\ aborted' = TRUE
          /\ UNCHANGED <<wk, nwk, current_worker>>
       \/ /\ nwk' = nwk + 1
          /\ wk' = [wk EXCEPT ![nwk + 1] = ConversionWorker]
          /\ current_worker' = nwk + 1
          /\ UNCHANGED aborted
    /\ UNCHANGED <<side_vars, task, nobj, tasks, file_list, queue, wlast, uipc, finished,
                   auto_clear_timer, now>>

\* _stop_conversion (button, menu action with F7, toolbar action), answered
\* Yes: ConversionWorker.stop(), then QThread.wait() blocks the UI thread.
_stop_conversion(entry) ==
    /\ UserReady
    /\ Enabled(entry, btn.stop)
    /\ current_worker # None
    /\ wk' = [wk EXCEPT ![current_worker].is_running = FALSE]
    /\ uipc' = "stop_wait"
    /\ UNCHANGED <<side_vars, task, nobj, tasks, file_list, progress_widgets, widgets_deleted,
                   btn, current_worker, nwk, queue, wlast, finished,
                   auto_clear_timer, now, aborted>>

\* _stop_conversion after wait() has returned: the controls are enabled again.
_stop_conversion_wait_returns ==
    /\ ~aborted
    /\ uipc = "stop_wait"
    /\ wk[current_worker].pc = "done"
    /\ btn' = ControlsEnabled
    /\ uipc' = "idle"
    /\ UNCHANGED <<side_vars, task, nobj, tasks, file_list, progress_widgets, widgets_deleted,
                   current_worker, wk, nwk, queue, wlast, finished,
                   auto_clear_timer, now, aborted>>

\* _pause_conversion (Pause button while it is connected to this slot, menu
\* action with F6, toolbar action): with a worker, the button is renamed
\* Resume and connected to _resume_conversion; the status bar and the log
\* get a line. The worker is not told.
_pause_conversion(entry) ==
    /\ UserReady
    /\ entry = "button" => (btn.pause /\ pause_btn = "Pause")
    /\ current_worker # None
    /\ pause_btn' = "Resume"
    /\ UNCHANGED <<main_vars, registry_vars, settings_vars, convert_vars, naming_vars>>

\* _resume_conversion (the button while it reads Resume): with a worker, the
\* button is renamed Pause and connected to _pause_conversion again.
_resume_conversion ==
    /\ UserReady
    /\ btn.pause /\ pause_btn = "Resume"
    /\ current_worker # None
    /\ pause_btn' = "Pause"
    /\ UNCHANGED <<main_vars, registry_vars, settings_vars, convert_vars, naming_vars>>

\* A queued event can be delivered: the UI thread is in its event loop.
Deliverable(kind) ==
    /\ ~aborted
    /\ uipc = "idle"
    /\ queue # <<>>
    /\ Head(queue).kind = kind

\* The DeferredDelete event of deleteLater(): the widgets are destroyed.
deferred_delete ==
    /\ Deliverable("deferred_delete")
    /\ queue' = Tail(queue)
    /\ widgets_deleted' = TRUE
    /\ UNCHANGED <<side_vars, task, nobj, tasks, file_list, progress_widgets, btn, current_worker,
                   wk, nwk, wlast, uipc, finished, auto_clear_timer,
                   now, aborted>>

\* _on_conversion_started: the widget of the task is updated and the task of
\* that index is read; a deleted widget (RuntimeError) or a missing list item
\* (IndexError) raises out of the slot.
_on_conversion_started ==
    /\ Deliverable("started")
    /\ queue' = Tail(queue)
    /\ LET task_id == Head(queue).task_id IN
       aborted' = (task_id < Len(progress_widgets)
                    /\ (widgets_deleted \/ task_id >= Len(tasks)))
    /\ UNCHANGED <<side_vars, task, nobj, tasks, file_list, progress_widgets, widgets_deleted,
                   btn, current_worker, wk, nwk, wlast, uipc, finished,
                   auto_clear_timer, now>>

\* _on_progress_updated and ConversionProgressWidget.update_progress: the
\* widget stores the percent into the task it was created for.
_on_progress_updated ==
    /\ Deliverable("progress")
    /\ queue' = Tail(queue)
    /\ LET task_id == Head(queue).task_id
           progress == Head(queue).progress
       IN IF task_id < Len(progress_widgets)
          THEN IF widgets_deleted
               THEN aborted' = TRUE /\ UNCHANGED task
               ELSE /\ task' = [task EXCEPT ![progress_widgets[task_id + 1]].progress = progress]
                    /\ UNCHANGED aborted
          ELSE UNCHANGED <<task, aborted>>
    /\ UNCHANGED <<side_vars, nobj, tasks, file_list, progress_widgets, widgets_deleted,
                   btn, current_worker, wk, nwk, wlast, uipc, finished,
                   auto_clear_timer, now>>

\* all_done computed with any() in place of all().
all_done_any == \E k \in 1..Len(tasks) : task[tasks[k]].status \in Terminal

\* all(task.status in ['completed', 'failed'] for task in self.tasks), the
\* statuses being read in one step of the UI thread.
all_done == \A k \in 1..Len(tasks) : task[tasks[k]].status \in Terminal

\* _on_task_completed: the widget and the log are updated, then the statuses
\* of the shared tasks are read; when all are terminal, _on_conversion_finished
\* is entered and enables the controls.
_on_task_completed ==
    /\ Deliverable("completed")
    /\ queue' = Tail(queue)
    /\ LET task_id == Head(queue).task_id IN
       IF task_id < Len(progress_widgets) /\ (widgets_deleted \/ task_id >= Len(tasks))
       THEN aborted' = TRUE /\ UNCHANGED <<btn, uipc, finished>>
       ELSE IF all_done
       THEN /\ btn' = ControlsEnabled
            /\ uipc' = "count_successful"
            /\ finished' = [finished EXCEPT !.state = "entered", !.run = current_worker]
            /\ UNCHANGED aborted
       ELSE UNCHANGED <<aborted, btn, uipc, finished>>
    /\ UNCHANGED <<side_vars, task, nobj, tasks, file_list, progress_widgets, widgets_deleted,
                   current_worker, wk, nwk, wlast, auto_clear_timer, now>>

Count(status) == Cardinality({k \in 1..Len(tasks) : task[tasks[k]].status = status})

\* _on_conversion_finished: successful = sum(1 for task in self.tasks if
\* task.status == 'completed').
_on_conversion_finished_successful ==
    /\ ~aborted
    /\ uipc = "count_successful"
    /\ finished' = [finished EXCEPT !.successful = Count("completed")]
    /\ uipc' = "count_failed"
    /\ UNCHANGED <<side_vars, task, nobj, tasks, file_list, progress_widgets, widgets_deleted,
                   btn, current_worker, wk, nwk, queue, wlast,
                   auto_clear_timer, now, aborted>>

\* _on_conversion_finished: failed = sum(...), the report in the status bar
\* and the log, and the auto-clear timer.
_on_conversion_finished_failed ==
    /\ ~aborted
    /\ uipc = "count_failed"
    /\ finished' = [state |-> "reported",
                    run |-> finished.run,
                    successful |-> finished.successful,
                    failed |-> Count("failed"),
                    n_start |-> wk[current_worker].n_start,
                    stopped |-> ~wk[current_worker].is_running]
    /\ \E auto_clear_list \in BOOLEAN :   \* self.config.auto_clear_list, as the settings have it
          auto_clear_timer' = (auto_clear_timer
                               \/ (auto_clear_list /\ finished.successful = Len(tasks)))
    /\ uipc' = "idle"
    /\ UNCHANGED <<side_vars, task, nobj, tasks, file_list, progress_widgets, widgets_deleted,
                   btn, current_worker, wk, nwk, queue, wlast,
                   now, aborted>>

\* ------------------------------------------------------------- the settings
\* Python values and JSON values carry their type; the text of a value is
\* kept as a string whatever the type.
PyStr(text) == [type |-> "str", val |-> text]
PyInt(text) == [type |-> "int", val |-> text]
PyBool(text) == [type |-> "bool", val |-> text]
PyNone == [type |-> "NoneType", val |-> "None"]

MaxMembers == 2   \* members of the settings file found at the first launch

\* Three of the nine AppConfig fields, one of each type, in the order of the
\* dataclass (the order of config.__dict__).
Fields == {"theme", "max_concurrent", "auto_clear_list"}
FieldOrder == <<"theme", "max_concurrent", "auto_clear_list">>

\* AppConfig(): the defaults of the dataclass.
DefaultConfig ==
    [theme |-> PyStr("dark"), max_concurrent |-> PyInt("2"),
     auto_clear_list |-> PyBool("False")]

\* The values SettingsDialog._save_settings can store in the fields.
ValidConfigs ==
    {[theme |-> PyStr(t), max_concurrent |-> PyInt(m), auto_clear_list |-> PyBool(a)] :
        t \in {"dark", "light"}, m \in {"2", "4"}, a \in {"False", "True"}}

\* dump_value writing every value as a JSON string.
dump_value_Quoted(value) == [kind |-> "string", text |-> value.val]

\* json.dump of one value: a str becomes a JSON string, an int a number, a
\* bool the literal true or false, None the literal null.
dump_value(value) ==
    CASE value.type = "str" -> [kind |-> "string", text |-> value.val]
      [] value.type = "int" -> [kind |-> "number", text |-> value.val]
      [] value.type = "bool" ->
            [kind |-> "literal", text |-> IF value.val = "True" THEN "true" ELSE "false"]
      [] OTHER -> [kind |-> "literal", text |-> "null"]

\* json.load of one value.
load_value(json) ==
    CASE json.kind = "string" -> PyStr(json.text)
      [] json.kind = "number" -> PyInt(json.text)
      [] json.text = "true" -> PyBool("True")
      [] json.text = "false" -> PyBool("False")
      [] OTHER -> PyNone

\* The settings file: missing, unreadable, or text that is not JSON, JSON that
\* is not an object, or a JSON object with its members in file order.
NoFile == [state |-> "missing", form |-> "none", members |-> <<>>]
Unreadable == [state |-> "unreadable", form |-> "none", members |-> <<>>]
NotJson == [state |-> "text", form |-> "invalid", members |-> <<>>]
JsonArray == [state |-> "text", form |-> "array", members |-> <<>>]
JsonObject(members) == [state |-> "text", form |-> "object", members |-> members]

\* json.dump(self.config.__dict__, f, indent=2)
dump(cfg) ==
    JsonObject([k \in 1..Len(FieldOrder) |->
                  [key |-> FieldOrder[k], value |-> dump_value(cfg[FieldOrder[k]])]])

\* hasattr(self.config, key): true for the fields and for every other
\* attribute of the object, such as __class__.
hasattr(key) == key \in Fields \cup {"__class__"}

\* The loop of _load_settings over data.items(), from item k on. setattr of
\* __class__ to a JSON value raises TypeError, which the bare except swallows:
\* the loop ends with the fields set so far.
RECURSIVE setattr_items(_, _, _)
setattr_items(cfg, items, k) ==
    IF k > Len(items) THEN cfg
    ELSE IF ~hasattr(items[k].key) THEN setattr_items(cfg, items, k + 1)
    ELSE IF items[k].key \in Fields
    THEN setattr_items([cfg EXCEPT ![items[k].key] = load_value(items[k].value)],
                       items, k + 1)
    ELSE cfg

\* _load_settings on the config object cfg: nothing is read when the file is
\* missing; open, json.load and data.items() raise into the bare except.
_load_settings(cfg) ==
    IF settings_file.state # "text" \/ settings_file.form # "object"
    THEN cfg
    ELSE setattr_items(cfg, settings_file.members, 1)

NoSave == [valid |-> FALSE, config |-> DefaultConfig, last |-> "none", warned |-> FALSE]

\* MainWindow.__init__: self.config = AppConfig(), then _load_settings().
MainWindow_launch ==
    /\ app = "closed"
    /\ app' = "loaded"
    /\ config' = _load_settings(DefaultConfig)
    /\ UNCHANGED <<settings_file, saved, main_vars, registry_vars, convert_vars, naming_vars, pause_vars>>

\* closeEvent: the window closes; the settings are not saved here.
closeEvent ==
    /\ app # "closed"
    /\ app' = "closed"
    /\ UNCHANGED <<config, settings_file, saved, main_vars, registry_vars, convert_vars, naming_vars, pause_vars>>

\* MainWindow._save_settings: the file is replaced by the dump of the config,
\* or open() raises and the bare except leaves the file as it was; the except
\* clause is "pass": no message box, no log line, no status bar text.
_save_settings ==
    \/ /\ settings_file' = dump(config')
       /\ saved' = [valid |-> TRUE, config |-> config', last |-> "written",
                    warned |-> FALSE]
    \/ /\ UNCHANGED settings_file
       /\ saved' = [saved EXCEPT !.last = "failed", !.warned = FALSE]

\* _open_settings with the dialog accepted: SettingsDialog._save_settings
\* stores the widgets' values in the config, then MainWindow._save_settings
\* writes the file.
_open_settings(new_config) ==
    /\ app # "closed"
    /\ app' = "edited"
    /\ config' = new_config
    /\ _save_settings
    /\ UNCHANGED <<main_vars, registry_vars, convert_vars, naming_vars, pause_vars>>

\* ------------------------------------------------- one call of _convert_single
\* The argument list as the list literal builds it; the paths, the bitrate
\* and the volume filter are named by what they stand for.
BaseCmd ==
    <<"ffmpeg", "-i", "input_path", "-codec:a", "libmp3lame", "-b:a", "bitrate",
      "-q:a", "2", "-y", "output_path">>

\* list.insert(index, x): a negative index counts from the end and the item is
\* put before the item at that position; an index out of range is clamped.
insert(list, index, x) ==
    LET n == Len(list)
        i == IF index < 0 THEN (IF index + n < 0 THEN 0 ELSE index + n)
             ELSE (IF index > n THEN n ELSE index)
    IN SubSeq(list, 1, i) \o <<x>> \o SubSeq(list, i + 1, n)

\* The text ffmpeg wrote to its error stream: n characters, each named by its
\* position in the stream.
Output(n) == [k \in 1..n |-> k]

\* s[:stop] with the slice bound left out.
slice_Whole(s, stop) == s

\* s[:stop] for stop >= 0: the first stop items, all of s when it is shorter.
slice(s, stop) == SubSeq(s, 1, IF Len(s) < stop THEN Len(s) ELSE stop)

\* A str is a sequence of pieces of text; a piece is never split further.
\* The format names of the combo box, lower case.
Formats == {"mp3", "wav", "flac", "aac", "ogg"}

\* os.path.join(a, b) for a relative b and a directory without a trailing
\* separator.
join(a, b) == a \o <<"/">> \o b

\* task.output_path as _start_conversion writes it: the output directory
\* joined with the stem of the input file, a dot and the format name.
OutputPath(stem, format) == join(<<"output_directory">>, stem \o <<".", format>>)

\* str.replace(old, new): every occurrence of old, found from the left and
\* without overlap, is replaced by new.
RECURSIVE replace(_, _, _)
replace(s, old, new) ==
    IF Len(s) < Len(old) THEN s
    ELSE IF SubSeq(s, 1, Len(old)) = old
         THEN new \o replace(SubSeq(s, Len(old) + 1, Len(s)), old, new)
         ELSE <<Head(s)>> \o replace(Tail(s), old, new)

\* cover_path = audio_path.replace('.mp3', '_cover.jpg')
CoverPath(audio_path) == replace(audio_path, <<".", "mp3">>, <<"_cover", ".", "jpg">>)

\* message is the fixed text the returned message starts with; excerpt is what
\* the f-string appends to "FFmpeg error: ". output_path is the task's
\* output_path, cover_path the path _extract_cover_art hands to ffmpeg, and
\* audio what the file at output_path holds.
NotCalled ==
    [pc |-> "makedirs", returncode |-> "none", cover |-> "skipped",
     metadata |-> "skipped", warnings |-> 0, success |-> FALSE, message |-> "",
     stderr |-> <<>>, excerpt |-> <<>>,
     output_path |-> OutputPath(<<"stem">>, "mp3"), cover_path |-> <<>>,
     audio |-> "none"]

\* return success, message
return(success, message) ==
    call' = [call EXCEPT !.pc = "returned", !.success = success, !.message = message]

\* os.makedirs(output_dir, exist_ok=True); an OSError reaches the except
\* clause of _convert_single.
makedirs ==
    /\ call.pc = "makedirs"
    /\ \/ call' = [call EXCEPT !.pc = "cmd"]
       \/ return(FALSE, "Conversion error")
    /\ UNCHANGED <<HAS_MUTAGEN, worker_config, cmd, main_vars, registry_vars, settings_vars, naming_vars, pause_vars>>

\* cmd = [...]
build_cmd ==
    /\ call.pc = "cmd"
    /\ cmd' = BaseCmd
    /\ call' = [call EXCEPT !.pc = "preserve_metadata"]
    /\ UNCHANGED <<HAS_MUTAGEN, worker_config, main_vars, registry_vars, settings_vars, naming_vars, pause_vars>>

\* if self.config.get('preserve_metadata', True): four cmd.insert(-1, ...)
insert_metadata_args ==
    /\ call.pc = "preserve_metadata"
    /\ cmd' = IF worker_config.preserve_metadata
              THEN insert(insert(insert(insert(cmd, -1, "-map_metadata"), -1, "0"),
                                 -1, "-id3v2_version"), -1, "3")
              ELSE cmd
    /\ call' = [call EXCEPT !.pc = "normalize"]
    /\ UNCHANGED <<HAS_MUTAGEN, worker_config, main_vars, registry_vars, settings_vars, naming_vars, pause_vars>>

\* if self.config.get('normalize', False): two cmd.insert(-2, ...)
insert_normalize_args ==
    /\ call.pc = "normalize"
    /\ cmd' = IF worker_config.normalize
              THEN insert(insert(cmd, -2, "-af"), -2, "volume=-1.0dB")
              ELSE cmd
    /\ call' = [call EXCEPT !.pc = "subprocess"]
    /\ UNCHANGED <<HAS_MUTAGEN, worker_config, main_vars, registry_vars, settings_vars, naming_vars, pause_vars>>

\* subprocess.run(cmd, ...) after the progress loop: ffmpeg exits with code
\* zero or with another code, or cannot be launched (OSError).
subprocess_run ==
    /\ call.pc = "subprocess"
    /\ \/ call' = [call EXCEPT !.pc = "extract_cover", !.returncode = "zero",
                               !.audio = "converted"]
       \/ \E n \in 0..MaxStderr :
            call' = [call EXCEPT !.pc = "returned", !.returncode = "nonzero",
                                 !.success = FALSE, !.message = "FFmpeg error",
                                 !.stderr = Output(n),
                                 !.excerpt = slice(Output(n), SliceStop)]
       \/ return(FALSE, "Conversion error")
    /\ UNCHANGED <<HAS_MUTAGEN, worker_config, cmd, main_vars, registry_vars, settings_vars, naming_vars, pause_vars>>

\* _extract_cover_art with the exception of the sub-step reaching the caller.
_extract_cover_art_Raises ==
    /\ call.pc = "extract_cover"
    /\ IF worker_config.extract_cover /\ HAS_MUTAGEN
       THEN LET cover_path == CoverPath(call.output_path) IN
            \/ call' = [call EXCEPT !.pc = "preserve_tags", !.cover = "done",
                                    !.cover_path = cover_path,
                                    !.audio = IF cover_path = call.output_path
                                              THEN "overwritten" ELSE @]
            \/ return(FALSE, "Conversion error")
       ELSE call' = [call EXCEPT !.pc = "preserve_tags"]
    /\ UNCHANGED <<HAS_MUTAGEN, worker_config, cmd, main_vars, registry_vars, settings_vars, naming_vars, pause_vars>>

\* if self.config.get('extract_cover', True) and HAS_MUTAGEN:
\* _extract_cover_art(...), whose own except clause turns every Exception of
\* ffmpeg or mutagen into a log message of level warning. ffmpeg is run with
\* -y cover_path: it replaces the file at cover_path when it succeeds, and
\* when it fails it has or has not opened (emptied) that file before.
_extract_cover_art ==
    /\ call.pc = "extract_cover"
    /\ IF worker_config.extract_cover /\ HAS_MUTAGEN
       THEN LET cover_path == CoverPath(call.output_path) IN
            \/ call' = [call EXCEPT !.pc = "preserve_tags", !.cover = "done",
                                    !.cover_path = cover_path,
                                    !.audio = IF cover_path = call.output_path
                                              THEN "overwritten" ELSE @]
            \/ \E opened \in BOOLEAN :
                 call' = [call EXCEPT !.pc = "preserve_tags", !.cover = "failed",
                                      !.warnings = @ + 1,
                                      !.cover_path = cover_path,
                                      !.audio = IF opened /\ cover_path = call.output_path
                                                THEN "overwritten" ELSE @]
       ELSE call' = [call EXCEPT !.pc = "preserve_tags"]
    /\ UNCHANGED <<HAS_MUTAGEN, worker_config, cmd, main_vars, registry_vars, settings_vars, naming_vars, pause_vars>>

\* if self.config.get('preserve_metadata', True) and HAS_MUTAGEN:
\* _preserve_metadata(...), which logs every Exception as a warning; then
\* return True, "Conversion successful".
_preserve_metadata ==
    /\ call.pc = "preserve_tags"
    /\ IF worker_config.preserve_metadata /\ HAS_MUTAGEN
       THEN \/ call' = [call EXCEPT !.pc = "returned", !.metadata = "done",
                                    !.success = TRUE, !.message = "Conversion successful"]
            \/ call' = [call EXCEPT !.pc = "returned", !.metadata = "failed",
                                    !.warnings = @ + 1,
                                    !.success = TRUE, !.message = "Conversion successful"]
       ELSE return(TRUE, "Conversion successful")
    /\ UNCHANGED <<HAS_MUTAGEN, worker_config, cmd, main_vars, registry_vars, settings_vars, naming_vars, pause_vars>>

\* run(), lines 110-115, for the call followed step by step: the values
\* _convert_single returned become the task's final status and message, and
\* task_completed is emitted.
run_convert_single_returned(w) ==
    /\ call.pc = "returned"
    /\ wk[w].pc = "makedirs"
    /\ run_result(w, call.success, call.message)
    /\ call' = [call EXCEPT !.pc = "done"]
    /\ UNCHANGED <<nobj, tasks, file_list, progress_widgets, widgets_deleted, btn,
                   current_worker, nwk, uipc, finished, auto_clear_timer, aborted,
                   HAS_MUTAGEN, worker_config, cmd, registry_vars, settings_vars, naming_vars, pause_vars>>

\* The config _start_conversion hands to the worker with the check boxes at
\* the AppConfig defaults; no call of _convert_single is followed step by step.
ConvertDefault ==
    /\ HAS_MUTAGEN = TRUE
    /\ worker_config = [preserve_metadata |-> TRUE, extract_cover |-> TRUE,
                        normalize |-> FALSE]
    /\ cmd = <<>>
    /\ call = NotCalled

\* ----------------------------------------------------------- specification
\* MainWindow.__init__: no tasks, no worker, the controls as _setup_ui leaves
\* them.
MainWindow_init ==
    /\ task = [o \in Objs |-> NoTask]
    /\ nobj = 0
    /\ tasks = <<>>
    /\ file_list = <<>>
    /\ progress_widgets = <<>>
    /\ widgets_deleted = FALSE
    /\ btn = ControlsEnabled
    /\ current_worker = None
    /\ wk = [w \in Workers |-> NoWorker]
    /\ nwk = 0
    /\ queue = <<>>
    /\ wlast = [w \in Workers |-> NoEv]
    /\ uipc = "idle"
    /\ finished = [state |-> "none", run |-> None, successful |-> 0, failed |-> 0,
                   n_start |-> 0, stopped |-> FALSE]
    /\ auto_clear_timer = FALSE
    /\ now = 1
    /\ aborted = FALSE

\* No call of _add_file_to_list has been observed.
NoCall == [file_path |-> None, returned |-> "None"]

\* The window is open with the default settings, no settings file exists.
SettingsDefault ==
    /\ app = "loaded"
    /\ config = DefaultConfig
    /\ settings_file = NoFile
    /\ saved = NoSave

\* The text of no path is followed, and the Pause button is as _setup_ui
\* creates it.
PanelDefault ==
    /\ names = <<>>
    /\ output_path = <<>>
    /\ pause_btn = "Pause"

\* Every file the user picks exists when it is picked.
Init ==
    /\ MainWindow_init
    /\ fs = [path \in Paths |-> TRUE]
    /\ add_call = NoCall
    /\ SettingsDefault
    /\ ConvertDefault
    /\ PanelDefault

Next ==
    \/ \E entry \in Entries, file_path \in Paths : _add_files(entry, file_path)
    \/ \E file_path \in Paths : dropEvent(file_path)
    \/ \E entry \in Entries : _clear_list(entry)
    \/ auto_clear_timeout
    \/ \E entry \in Entries : _start_conversion(entry)
    \/ \E entry \in Entries : _stop_conversion(entry)
    \/ _stop_conversion_wait_returns
    \/ deferred_delete
    \/ _on_conversion_started
    \/ _on_progress_updated
    \/ _on_task_completed
    \/ _on_conversion_finished_successful
    \/ _on_conversion_finished_failed
    \/ \E w \in Workers : run(w)
    \/ \E w \in Workers : _convert_single_makedirs(w)
    \/ \E w \in Workers : _convert_single_progress(w)
    \/ \E w \in Workers : _convert_single_subprocess(w)

Spec == Init /\ [][Next]_vars

\* ------------------------------------------------------------------ claims
Allocated == 1..nobj
Running(w) == wk[w].pc \notin {"none", "done"}
Status(o) == task[o].status

\* Worker w emits a signal in this step: the queue grows by the emission and
\* only w's own steps both change w and extend the queue.
Emitted(w) == wk'[w] # wk[w] /\ Len(queue') = Len(queue) + 1

\* C1: a task's status only moves pending -> converting -> {completed,
\* failed}; a completed or failed task never goes back to converting or
\* pending, also when a new run is started over finished tasks.
C1_StatusMonotonic ==
    [][\A o \in Objs :
          \/ task'[o].status = task[o].status
          \/ task[o].status = "pending" /\ task'[o].status = "converting"
          \/ task[o].status = "converting" /\ task'[o].status \in Terminal]_vars

\* What a worker may emit after the signal it emitted before.
OrderOK(prev, ev) ==
    CASE ev.kind = "started" ->
            \/ prev.kind = "none"
            \/ prev.kind = "completed" /\ prev.task_id < ev.task_id
      [] ev.kind = "progress" ->
            /\ prev.task_id = ev.task_id
            /\ \/ prev.kind = "started"
               \/ prev.kind = "progress" /\ prev.progress <= ev.progress
      [] ev.kind = "completed" ->
            /\ prev.task_id = ev.task_id
            /\ prev.kind \in {"started", "progress"}
      [] OTHER -> FALSE

\* C2: the signals a run emits for a task are one conversion_started, then
\* progress_updated with non-decreasing percent, then exactly one
\* task_completed: every emission is allowed after the one before it, and a
\* worker that has left its loop has closed the task it emitted for last.
C2_EventOrder ==
    /\ [][\A w \in Workers : Emitted(w) => OrderOK(wlast[w], wlast'[w])]_vars
    /\ [](\A w \in Workers : wk[w].pc = "done" => wlast[w].kind \in {"none", "completed"})

\* A run has emitted Started, the whole progress sequence and Completed for
\* its second task.
C2_Witness ==
    \E w \in Workers : wlast[w] = CompletedEv(1, TRUE) /\ wk[w].pc = "done"

\* C3: progress is non-decreasing while a task is converting, and a task has
\* progress 100 exactly when it is completed (judged once the UI thread has
\* handled every queued signal): a converting or failed task is not at 100.
C3_ProgressHundredIffCompleted ==
    /\ [][\A o \in Objs :
            task[o].status = "converting" /\ task'[o].status = "converting"
                => task'[o].progress >= task[o].progress]_vars
    /\ [](queue = <<>> =>
            \A o \in Allocated :
                /\ Status(o) = "completed" => task[o].progress = 100
                /\ Status(o) \in {"converting", "failed"} => task[o].progress # 100)

C5_StoppedRunLeavesNoPending ==
    [][\A w \in Workers :
          (Running(w) /\ wk'[w].pc = "done" /\ ~wk'[w].is_running) =>
              \A k \in 1..Len(tasks') : task'[tasks'[k]].status # "pending"]_vars

\* C6: while a worker is running the UI side does not mutate the task list.
C6_ListFrozenWhileRunning ==
    [][(\E w \in Workers : Running(w)) => tasks' = tasks]_vars

\* C7: at most one conversion worker is executing at any time.
C7_SingleWorker ==
    Cardinality({w \in Workers : Running(w)}) <= 1

\* C8: when a worker that was never signalled to stop leaves its loop, every
\* task of the list has been started by it and has got its final status.
C8_UnstoppedRunProcessesAll ==
    [][\A w \in Workers :
          (Running(w) /\ wk'[w].pc = "done" /\ wk'[w].is_running) =>
              \A k \in 1..Len(tasks') : tasks'[k] \in wk'[w].ended]_vars

\* C9: the report of a run that was not cancelled satisfies
\* successful + failed = N, the number of tasks the run was started with.
C9_ReportCountsAll ==
    (finished.state = "reported" /\ ~finished.stopped) =>
        finished.successful + finished.failed = finished.n_start

\* The tasks that have reached completed or failed at some time.
EverEnded == UNION {wk[w].ended : w \in Workers}

\* C10: _on_conversion_finished runs only after every task of the list has
\* reached completed or failed.
C10_FinishedAfterAllTerminal ==
    uipc \in {"count_successful", "count_failed"} =>
        \A k \in 1..Len(tasks) : tasks[k] \in EverEnded

\* _on_conversion_finished has been entered for a list of two tasks.
C10_Witness ==
    /\ uipc = "count_successful"
    /\ Len(tasks) = 2

\* A Stop answered Yes has called stop() on worker w.
StopConfirmed(w) == wk[w].pc # "none" /\ ~wk[w].is_running

\* _on_conversion_finished has been entered while w was the current worker.
FinishHandled(w) == finished.state # "none" /\ finished.run = w

\* C11: a run ends either stopped or finished, never both: no worker has
\* both had its stop confirmed in _stop_conversion and had
\* _on_conversion_finished run for it.
C11_StoppedXorFinished ==
    \A w \in Workers : ~(StopConfirmed(w) /\ FinishHandled(w))

\* C17: once a task is completed or failed none of its fields changes again;
\* in particular a progress signal delivered after the worker has set the
\* final status leaves the task's progress as it is.
C17_TerminalTaskFrozen ==
    [][\A o \in Objs :
          task[o].status \in Terminal =>
              /\ task'[o].progress = task[o].progress
              /\ task'[o].error_message = task[o].error_message
              /\ task'[o].start_time = task[o].start_time
              /\ task'[o].end_time = task[o].end_time]_vars

Converting == {o \in Allocated : Status(o) = "converting"}

\* C18: tasks are processed one after the other: at most one task is
\* converting at any time, and conversion_started is emitted for a task only
\* when the task before it is no longer converting.
C18_OneTaskAtATime ==
    /\ [](Cardinality(Converting) <= 1)
    /\ [][\A w \in Workers :
            (Emitted(w) /\ wlast'[w].kind = "started") => Converting = {}]_vars

\* os.makedirs raises in _start_conversion: the exception leaves the slot
\* (the only step that raises without taking a signal from the queue).
StartRaised == ~aborted /\ aborted' /\ queue' = queue

\* C19: a failure to create the output directory makes the one task failed
\* and the run goes on with the next task, inside the conversion of a task
\* as well as when the run is started: it never aborts the batch.
C19_MakedirsFailureFailsOneTask ==
    /\ [][\A w \in Workers :
            (wk[w].pc = "makedirs" /\ wk'[w].pc = "loop") =>
                /\ task'[wk[w].task].status = "failed"
                /\ \A o \in Objs \ {wk[w].task} : task'[o] = task[o]
                /\ wk'[w].i = wk[w].i + 1
                /\ wk'[w].is_running = wk[w].is_running]_vars
    /\ [][~StartRaised]_vars

\* C22: a task's error_message is non-empty only while its status is failed,
\* also for a task that failed in an earlier run and is converting again.
C22_ErrorMessageOnlyIfFailed ==
    \A o \in Allocated : task[o].error_message # "" => Status(o) = "failed"

FinishInvoked == uipc = "idle" /\ uipc' = "count_successful"

\* C26: in every run _on_conversion_finished is invoked at most once, and only
\* after the worker of that run has emitted task_completed for every task of
\* the list.
C26_FinishOncePerRun ==
    [][FinishInvoked =>
            /\ \A k \in 1..Len(tasks) : tasks[k] \in wk[current_worker].ended
            /\ ~FinishHandled(current_worker)]_vars

\* --------------------------------------------------- the batch with progress
\* A started QThread keeps running until run() returns, and every external
\* process call returns.
WorkerStep ==
    \E w \in Workers :
        \/ run(w)
        \/ _convert_single_makedirs(w)
        \/ _convert_single_progress(w)
        \/ _convert_single_subprocess(w)

\* The event loop of the UI thread delivers every queued signal and deferred
\* delete, a handler that was entered runs to its end, and QThread.wait()
\* returns once the worker has ended.
UiStep ==
    \/ deferred_delete
    \/ _on_conversion_started
    \/ _on_progress_updated
    \/ _on_task_completed
    \/ _on_conversion_finished_successful
    \/ _on_conversion_finished_failed
    \/ _stop_conversion_wait_returns

SpecLive == Init /\ [][Next]_vars /\ WF_vars(WorkerStep) /\ WF_vars(UiStep)

\* C30: whenever Start, Add and Clear are disabled a worker exists for the
\* run, and the controls are enabled again later, whatever the creation of
\* the output directory and the conversions do.
C30_ControlsReenabled ==
    /\ [](btn = ControlsDisabled =>
            (current_worker # None /\ wk[current_worker].pc # "none"))
    /\ (btn = ControlsDisabled ~> btn = ControlsEnabled)

\* ------------------------------------------ the task list seen by a caller
\* Some task of the list has this input path.
Registered(path) == \E k \in 1..Len(tasks) : task[tasks[k]].input_path = path

\* One call self._add_file_to_list(file_path), as _add_files, _add_folder and
\* _on_files_dropped make it, with the value the caller gets back: the
\* duplicate branch ends in a bare return and the other branch falls off the
\* end of the function, so the call returns None either way; nothing is
\* raised, os.path.exists being tested before os.path.getsize.
add_file(file_path) ==
    /\ UserReady
    /\ FreshOrListed(file_path)
    /\ \/ \E k \in 1..Len(file_list) : file_list[k] = file_path
       \/ nobj < MaxObj /\ Len(file_list) < MaxList
    /\ _add_file_to_list(file_path, file_list)
    /\ add_call' = [file_path |-> file_path, returned |-> "None"]
    /\ UNCHANGED <<fs, progress_widgets, widgets_deleted, btn, current_worker, wk, nwk,
                   queue, wlast, uipc, finished, auto_clear_timer, now, aborted,
                   settings_vars, convert_vars, naming_vars, pause_vars>>

\* Another program creates or removes the file of an input path.
fs_change(path) ==
    /\ fs' = [fs EXCEPT ![path] = ~@]
    /\ UNCHANGED <<main_vars, add_call, settings_vars, convert_vars, naming_vars, pause_vars>>

\* The window after construction, with any of the input paths missing.
InitAdd ==
    /\ MainWindow_init
    /\ fs \in [Paths -> BOOLEAN]
    /\ add_call = NoCall
    /\ PanelDefault
    /\ SettingsDefault
    /\ ConvertDefault

NextAdd ==
    \/ \E file_path \in Paths : add_file(file_path)
    \/ \E file_path \in Paths : dropEvent(file_path)
    \/ \E entry \in Entries : _clear_list(entry)
    \/ \E path \in Paths : fs_change(path)

SpecAdd == InitAdd /\ [][NextAdd]_vars

\* A call of _add_file_to_list is made in this step.
AddCalled == add_call' # add_call

\* C12: adding an input path that a task of the list already has returns a
\* DuplicateError to the caller and leaves the list and its tasks as they
\* were, and no two tasks of the list have the same input path.
C12_DuplicateAddRejected ==
    /\ [][(AddCalled /\ Registered(add_call'.file_path)) =>
            /\ add_call'.returned = "DuplicateError"
            /\ tasks' = tasks /\ task' = task]_vars
    /\ [](\A j, k \in 1..Len(tasks) :
            j # k => task[tasks[j]].input_path # task[tasks[k]].input_path)

\* C13: adding a path whose file cannot be read when it is added reports a
\* FileAccessError and adds no task, so the list never holds a task that was
\* created for a missing file.
C13_UnreadableFileNotAdded ==
    /\ [][(AddCalled /\ ~fs[add_call'.file_path]) =>
            /\ add_call'.returned = "FileAccessError"
            /\ tasks' = tasks /\ task' = task]_vars
    /\ [](\A k \in 1..Len(tasks) : task[tasks[k]].file_size # 0)

\* C25: the paths shown in the file list are the input paths of the task
\* list, in the same order, after any sequence of adds, drops and clears.
C25_FileListMatchesTasks ==
    /\ Len(file_list) = Len(tasks)
    /\ \A k \in 1..Len(tasks) : file_list[k] = task[tasks[k]].input_path

\* ------------------------------------------- the settings across launches
\* The keys and values of the settings file found at the first launch, written
\* by hand or by another program: the fields, a key that is no attribute, and __class__.
Keys == Fields \cup {"volume", "__class__"}
JsonValues ==
    {[kind |-> "string", text |-> "light"], [kind |-> "number", text |-> "4"],
     [kind |-> "literal", text |-> "true"], [kind |-> "literal", text |-> "null"]}

\* The items of a parsed JSON object: no key occurs twice.
ItemLists ==
    {items \in UNION {[1..n -> [key : Keys, value : JsonValues]] : n \in 0..MaxMembers} :
        \A j, k \in DOMAIN items : j # k => items[j].key # items[k].key}

Files == {NoFile, Unreadable, NotJson, JsonArray} \cup {JsonObject(items) : items \in ItemLists}

\* Before the first launch, with any settings file.
InitSettings ==
    /\ MainWindow_init
    /\ fs = [path \in Paths |-> TRUE]
    /\ add_call = NoCall
    /\ app = "closed"
    /\ config = DefaultConfig
    /\ settings_file \in Files
    /\ saved = NoSave
    /\ ConvertDefault
    /\ PanelDefault

NextSettings ==
    \/ MainWindow_launch
    \/ closeEvent
    \/ \E new_config \in ValidConfigs : _open_settings(new_config)

SpecSettings == InitSettings /\ [][NextSettings]_vars

\* C14: the config that _load_settings builds from a fresh AppConfig equals,
\* field by field, the config from which _save_settings last wrote the file.
C14_SettingsRoundTrip ==
    (app = "loaded" /\ saved.valid) => config = saved.config

\* Settings that differ from the default in every field have been saved and
\* loaded again after a new launch.
C14_Witness ==
    /\ app = "loaded" /\ saved.valid
    /\ config = saved.config
    /\ \A field \in Fields : config[field] # DefaultConfig[field]

\* What the file says about a field: the value of the member with that key.
FileValue(file, field) ==
    load_value(file.members[CHOOSE k \in 1..Len(file.members) :
                                file.members[k].key = field].value)

\* The config a settings file stands for: all defaults unless the file is a
\* JSON object, and then each field as the file has it, a field the file does
\* not mention at its default, every other key ignored.
Expected(file) ==
    IF file.state # "text" \/ file.form # "object" THEN DefaultConfig
    ELSE [field \in Fields |->
            IF \E k \in 1..Len(file.members) : file.members[k].key = field
            THEN FileValue(file, field)
            ELSE DefaultConfig[field]]

\* C15: loading never fails and never loads a part only: keys that are no
\* AppConfig fields are ignored, fields the file lacks keep their defaults,
\* and a missing, unreadable or malformed file leaves every default.
C15_LoadAllOrDefaults ==
    [][(app = "closed" /\ app' = "loaded") => config' = Expected(settings_file)]_vars

\* C24: when _save_settings cannot write the file after the settings dialog
\* was accepted, the user is told so, the dialog has closed and the config
\* holds the accepted values.
C24_SaveFailureReported ==
    [][(app' = "edited" /\ saved'.last = "failed") =>
            (saved'.warned /\ config' \in ValidConfigs)]_vars

\* -------------------------------------------- _convert_single step by step
\* The batch as run() leaves it when it calls _convert_single for the first
\* task of a list of one: the file was added, Start was pressed, the worker
\* has emitted conversion_started and marked the task converting.
InConvertSingle ==
    /\ nobj = 1
    /\ tasks = <<1>>
    /\ file_list = <<1>>
    /\ progress_widgets = <<1>>
    /\ widgets_deleted = FALSE
    /\ task = [o \in Objs |-> IF o = 1
                              THEN [ConversionTask(1) EXCEPT !.status = "converting",
                                                             !.start_time = 1]
                              ELSE NoTask]
    /\ btn = ControlsDisabled
    /\ current_worker = 1
    /\ wk = [w \in Workers |-> IF w = 1
                               THEN [ConversionWorker EXCEPT !.pc = "makedirs", !.task = 1,
                                                             !.started = {1}]
                               ELSE NoWorker]
    /\ nwk = 1
    /\ queue = <<StartedEv(0)>>
    /\ wlast = [w \in Workers |-> IF w = 1 THEN StartedEv(0) ELSE NoEv]
    /\ uipc = "idle"
    /\ finished = [state |-> "none", run |-> None, successful |-> 0, failed |-> 0,
                   n_start |-> 0, stopped |-> FALSE]
    /\ auto_clear_timer = FALSE
    /\ now = 2
    /\ aborted = FALSE

\* A worker whose config has any values of the three flags calls
\* _convert_single for one task.
InitConvert ==
    /\ PanelDefault
    /\ fs = [path \in Paths |-> TRUE]
    /\ InConvertSingle
    /\ add_call = NoCall
    /\ SettingsDefault
    /\ HAS_MUTAGEN \in BOOLEAN
    /\ worker_config \in [preserve_metadata : BOOLEAN, extract_cover : BOOLEAN,
                          normalize : BOOLEAN]
    /\ cmd = <<>>
    /\ \E format \in Formats :
          call = [NotCalled EXCEPT !.output_path = OutputPath(<<"stem">>, format)]

NextConvert ==
    \/ makedirs
    \/ build_cmd
    \/ insert_metadata_args
    \/ insert_normalize_args
    \/ subprocess_run
    \/ _extract_cover_art
    \/ _preserve_metadata
    \/ \E w \in Workers : run_convert_single_returned(w)

SpecConvert == InitConvert /\ [][NextConvert]_vars

\* Every occurrence of the option is immediately followed by the value.
FollowedBy(option, value) ==
    \A k \in 1..Len(cmd) : cmd[k] = option => k < Len(cmd) /\ cmd[k + 1] = value

Present(option) == \E k \in 1..Len(cmd) : cmd[k] = option

\* C16: the argument list handed to ffmpeg is well formed for every
\* combination of preserve_metadata and normalize: each option is directly
\* followed by its value, -af is there exactly when normalize is set, the two
\* metadata options exactly when preserve_metadata is set, and the output
\* path is the last argument.
C16_CommandWellFormed ==
    call.pc \in {"subprocess", "extract_cover", "preserve_tags"} =>
        /\ FollowedBy("-b:a", "bitrate")
        /\ FollowedBy("-map_metadata", "0")
        /\ FollowedBy("-id3v2_version", "3")
        /\ FollowedBy("-af", "volume=-1.0dB")
        /\ Present("-af") <=> worker_config.normalize
        /\ Present("-map_metadata") <=> worker_config.preserve_metadata
        /\ Present("-id3v2_version") <=> worker_config.preserve_metadata
        /\ cmd[Len(cmd)] = "output_path"

\* C20: when ffmpeg has exited with code zero the call returns success with
\* the message "Conversion successful", whatever cover extraction and metadata
\* copy did; a failure of either only logs a warning.
C20_SubStepsNeverFail ==
    (call.pc = "returned" /\ call.returncode = "zero") =>
        /\ call.success /\ call.message = "Conversion successful"
        /\ call.warnings = Cardinality({step \in {"cover", "metadata"} : call[step] = "failed"})

\* ffmpeg exited with code zero, cover extraction and metadata copy both
\* failed, and the call has returned.
C20_Witness ==
    /\ call.pc = "returned" /\ call.returncode = "zero"
    /\ call.cover = "failed" /\ call.metadata = "failed"
    /\ call.success

\* C21: when ffmpeg exits with a non-zero code or cannot be launched, the task
\* becomes failed with the returned message, its end_time is set, exactly one
\* task_completed(i, False, ...) is emitted for it, and the message carries
\* the first characters of the error output, at most 200 of them.
C21_FailureReported ==
    /\ [](call.returncode = "nonzero" =>
            /\ Len(call.excerpt) <= SliceStop
            /\ call.excerpt = SubSeq(call.stderr, 1, Len(call.excerpt))
            /\ Len(call.stderr) <= SliceStop => call.excerpt = call.stderr)
    /\ [][\A w \in Workers :
            (call.pc = "returned" /\ ~call.success /\ call'.pc = "done"
             /\ wk[w].pc = "makedirs") =>
                /\ task'[wk[w].task].status = "failed"
                /\ task'[wk[w].task].error_message = call.message
                /\ task'[wk[w].task].end_time = now
                /\ queue' = Append(queue, CompletedEv(wk[w].i, FALSE))]_vars

\* ffmpeg wrote more than 200 characters and exited with a non-zero code, and
\* run() has marked the task failed.
C21_Witness ==
    /\ call.pc = "done" /\ call.returncode = "nonzero"
    /\ Len(call.stderr) > SliceStop
    /\ task[1].status = "failed"
    /\ queue[Len(queue)] = CompletedEv(0, FALSE)

\* C27: for every output format, when cover extraction has run, the path it
\* wrote the image to is not the task's audio output path, and a call that
\* returned success has left the converted audio file in place.
C27_CoverPathNotAudioPath ==
    /\ call.cover # "skipped" => call.cover_path # call.output_path
    /\ (call.pc \in {"returned", "done"} /\ call.success) => call.audio = "converted"

\* ------------------------------------------ the output paths of a task list
\* The video files the user can add: two folders, two stems, two extensions.
InputDirs == {"videos", "clips"}
InputStems == {"song", "talk"}
InputExts == {"mp4", "avi"}

VideoPaths == {join(<<d>>, <<st, ".", e>>) : d \in InputDirs, st \in InputStems, e \in InputExts}

\* The position of the last x in s, 0 when there is none.
LastIndex(s, x) ==
    IF \E k \in 1..Len(s) : s[k] = x
    THEN CHOOSE k \in 1..Len(s) : s[k] = x /\ \A j \in (k + 1)..Len(s) : s[j] # x
    ELSE 0

\* Path(p).name: the final component.
PathName(p) == SubSeq(p, LastIndex(p, "/") + 1, Len(p))

\* Path(p).stem: the final component without its last suffix.
PathStem(p) ==
    LET name == PathName(p)
        dot == LastIndex(name, ".")
    IN IF dot > 1 THEN SubSeq(name, 1, dot - 1) ELSE name

\* str(Path(p).with_suffix(suffix))
with_suffix(p, suffix) ==
    SubSeq(p, 1, Len(p) - Len(PathName(p))) \o PathStem(p) \o suffix

\* The task lists _add_file_to_list can build: no input path twice.
TaskLists ==
    UNION {{l \in [1..n -> VideoPaths] : \A j, k \in 1..n : j # k => l[j] # l[k]} :
           n \in 0..MaxList}

\* _start_conversion, lines 1160-1165, for the format the combo box shows:
\* every task of the list gets its output path from the output directory,
\* the stem of its input path and the format.
_start_conversion_output_paths(format) ==
    /\ Len(names) # 0
    /\ output_path' = [k \in 1..Len(names) |-> OutputPath(PathStem(names[k]), format)]
    /\ UNCHANGED <<names, main_vars, registry_vars, settings_vars, convert_vars, pause_vars>>

\* Any task list, each task with the output path ConversionTask.__init__
\* gave it: the input path with the suffix .mp3.
InitNaming ==
    /\ MainWindow_init
    /\ fs = [path \in Paths |-> TRUE]
    /\ add_call = NoCall
    /\ SettingsDefault
    /\ ConvertDefault
    /\ pause_btn = "Pause"
    /\ names \in TaskLists
    /\ output_path = [k \in 1..Len(names) |-> with_suffix(names[k], <<".", "mp3">>)]

NextNaming == \E format \in Formats : _start_conversion_output_paths(format)

SpecNaming == InitNaming /\ [][NextNaming]_vars

\* C28: once _start_conversion has rewritten the output paths, any two
\* distinct tasks of the list have distinct output paths.
C28_DistinctOutputPaths ==
    [][output_path' # output_path =>
            \A j, k \in 1..Len(output_path') :
                j # k => output_path'[j] # output_path'[k]]_vars

\* ------------------------------------------------- Pause during a conversion
\* The first conversion of a list of one is under way.
InitPause ==
    /\ fs = [path \in Paths |-> TRUE]
    /\ InConvertSingle
    /\ add_call = NoCall
    /\ SettingsDefault
    /\ ConvertDefault
    /\ PanelDefault

NextPause ==
    \/ \E entry \in Entries : _pause_conversion(entry)
    \/ _resume_conversion
    \/ _on_conversion_started
    \/ _on_progress_updated
    \/ _on_task_completed
    \/ _on_conversion_finished_successful
    \/ _on_conversion_finished_failed
    \/ \E w \in Workers : run(w)
    \/ \E w \in Workers : _convert_single_makedirs(w)
    \/ \E w \in Workers : _convert_single_progress(w)
    \/ \E w \in Workers : _convert_single_subprocess(w)

SpecPause == InitPause /\ [][NextPause]_vars

\* The last request was Pause: the button offers Resume.
Paused == pause_btn = "Resume"

\* C29: between a Pause request and the following Resume request the worker
\* starts no new task, emits no progress_updated and does not run ffmpeg.
C29_PauseSuspendsWorker ==
    [][(Paused /\ Paused') =>
            \A w \in Workers :
                /\ wk'[w].started = wk[w].started
                /\ ~(Emitted(w) /\ wlast'[w].kind = "progress")
                /\ ~(wk[w].pc = "progress" /\ wk[w].progress >= RangeStop
                     /\ wk'[w].pc = "loop")]_vars

====
